---- MODULE Spec2Model ----
(***************************************************************************)
(* Workflow and SLA engine of the ATS service: stage transitions of        *)
(* applications (services/workflow_service.py), the SLA monitor            *)
(* (services/sla_monitor.py) and the bulk operations of the applications   *)
(* router (routers/applications.py).                                       *)
(*                                                                         *)
(* Spec runs every request handler and every pass of the monitor without   *)
(* interleaving inside it, which is what one event loop does with handlers *)
(* that never await.  SpecConc is the store shared by several server       *)
(* processes: an advance request and a monitor scan are split at their     *)
(* database round trips.  SpecStages is advance over every stage row,      *)
(* with the single status update.  SpecBulk is the bulk endpoints and      *)
(* their background tasks.  SpecMonitor is the monitor loop over several   *)
(* days, with its stop.  SpecNotify is one bulk status update to any       *)
(* status, with the notifications of its items.  SpecPlanner sends the     *)
(* notification of a stored status change at any time.  SpecEvents is the  *)
(* advances, single and bulk, to the stage named Interview.  SpecSetup is  *)
(* the requests that create stage rows.  SpecTimeline is advances with the *)
(* passing of time.  SpecLoops is the monitor with further calls of        *)
(* start_monitoring.  SpecOperation is one bulk operation of either kind.  *)
(* SpecFair is the bulk status updates with background tasks that are run  *)
(* to their end.                                                           *)
(***************************************************************************)
EXTENDS Integers, Sequences, FiniteSets, TLC

----------------------------------------------------------------------------
(* Bounds of the model *)

\* the clock stops here
MaxClock == 2
\* stage_transitions and sla_escalations rows the store holds, together
MaxRows == 3
\* advance requests in flight at once
MaxSessions == 2
\* bulk submissions accepted
MaxOps == 2
\* bulk items on which a call of the store raises
MaxStoreFailures == 1
\* direct calls of send_status_change_notification
MaxSent == 2
\* POST /stages requests, and POST /stages/job/{job_id}/default requests
MaxStageRequests == 2
\* calls of start_monitoring on a service that was started
MaxLoops == 1

----------------------------------------------------------------------------
(* Rows that exist before the first request *)

\* SQL NULL / Python None in a nullable column
NULL == 0 - 1

\* applications in the store; every other UUID is unknown
Applications == {"A", "B"}
UnknownApplication == "X"
ApplicationIds == Applications \cup {UnknownApplication}

\* Application.job_id
JobOf == [a \in Applications |-> "J1"]

\* JobPosting.created_by
JobCreator == [j \in {"J1"} |-> "M"]

Users == {"U", "M"}

\* workflow_stages rows, created through POST /stages: two stages of job J1, a
\* stage of J1 whose is_active column is false, a stage of another job, and
\* the stage of J1 named Interview as create_default_workflow_stages names it
WorkflowStages ==
  << [job_id |-> "J1", order_index |-> 1, sla_hours |-> 1, is_active |-> TRUE,
      name |-> <<"A","p","p","l","i","e","d">>],
     [job_id |-> "J1", order_index |-> 2, sla_hours |-> 2, is_active |-> TRUE,
      name |-> <<"P","h","o","n","e"," ","S","c","r","e","e","n">>],
     [job_id |-> "J1", order_index |-> 3, sla_hours |-> 1, is_active |-> FALSE,
      name |-> <<"S","p","a","r","e">>],
     [job_id |-> "J2", order_index |-> 1, sla_hours |-> 1, is_active |-> TRUE,
      name |-> <<"P","a","n","e","l">>],
     [job_id |-> "J1", order_index |-> 4, sla_hours |-> 4, is_active |-> TRUE,
      name |-> <<"I","n","t","e","r","v","i","e","w">>] >>

StageIds == DOMAIN WorkflowStages
UnknownStage == 9
\* the stage_id of advance requests: the active stages of the applications' job
\* and an id no row has
StageInputs == {1, 2, UnknownStage}
\* every stage row's id and an id no row has
AllStageInputs == StageIds \cup {UnknownStage}
\* the stage_id of bulk requests
BulkStageInputs == {1, UnknownStage}

\* Application.status column default
DefaultStatus == <<"a","p","p","l","i","e","d">>

\* the statuses bulk requests set
Screening == <<"s","c","r","e","e","n","i","n","g">>
Rejected == <<"r","e","j","e","c","t","e","d">>
Interview == <<"i","n","t","e","r","v","i","e","w">>
TechnicalTest == <<"t","e","c","h","n","i","c","a","l","_","t","e","s","t">>
FinalInterview == <<"f","i","n","a","l","_","i","n","t","e","r","v","i","e","w">>
Offer == <<"o","f","f","e","r">>
Hired == <<"h","i","r","e","d">>
Withdrawn == <<"w","i","t","h","d","r","a","w","n">>
\* a status no list of the code names
OnHold == <<"o","n","_","h","o","l","d">>

\* new_status of a bulk status update is any string
StatusInputs ==
  {DefaultStatus, OnHold, Screening, Interview, TechnicalTest, FinalInterview,
   Offer, Hired, Rejected, Withdrawn}

\* the application_ids lists of bulk requests
IdLists == { <<>>, <<"A", "B">>, <<"A", "X">> }

----------------------------------------------------------------------------
(* str.lower() and str.replace(" ", "_") on the characters stage names use *)

UpperCase == <<"A","I","P","S">>
LowerCase == <<"a","i","p","s">>

Lower(c) ==
  IF \E i \in DOMAIN UpperCase : UpperCase[i] = c
  THEN LowerCase[CHOOSE i \in DOMAIN UpperCase : UpperCase[i] = c]
  ELSE c

\* a bug: spaces are kept
CanonicalStatus_KeepsSpaces(name) == [i \in DOMAIN name |-> Lower(name[i])]

\* target_stage.name.lower().replace(" ", "_")
CanonicalStatus(name) ==
  [i \in DOMAIN name |-> IF Lower(name[i]) = " " THEN "_" ELSE Lower(name[i])]

----------------------------------------------------------------------------
VARIABLES
  now,          \* the clock read by datetime.utcnow() and func.now(), in hours
  status,       \* applications.status
  transitions,  \* stage_transitions rows, in insertion order; the id is the index
  escalations,  \* sla_escalations rows, in insertion order; the id is the index
  history,      \* application_status_history rows, in insertion order
  reply,        \* the outcome of the latest request
  sessions,     \* advance requests between their reads and their commit
  monitor,      \* the monitor's scan: its position in the list it queried
  records,      \* the progress dicts created by bulk submissions; the index is the object
  bulk_operation_progress,  \* the module's dict: operation id -> progress dict
  tasks,        \* the background tasks added by bulk submissions
  notification_service,  \* sent_notifications of a NotificationService called directly
  created_stages,        \* workflow_stages rows created by requests, in insertion order
  loops         \* the loops of later start_monitoring calls

store == <<status, transitions, escalations, history>>
bulk == <<records, bulk_operation_progress, tasks>>
\* what the handlers of the applications and of the escalations leave alone
aside == <<notification_service, created_stages, loops>>
vars == <<now, status, transitions, escalations, history, reply, sessions, monitor,
          records, bulk_operation_progress, tasks, notification_service,
          created_stages, loops>>

\* rows counted against MaxRows
Rows == Len(transitions) + Len(escalations)

\* the reply of a request: the error raised, or "ok" with the id of the returned row
Reply(op, res, id) == [op |-> op, res |-> res, id |-> id]

----------------------------------------------------------------------------
(* WorkflowService.advance_application_to_stage *)

\* rows matching application_id == a and exited_at IS NULL
OpenTransitions(trs, a) ==
  {t \in DOMAIN trs : trs[t].application_id = a /\ trs[t].exited_at = NULL}

\* .first() of that query: one of the matching rows, or None
CurrentTransitionChoices(trs, a) ==
  IF OpenTransitions(trs, a) = {} THEN {NULL} ELSE OpenTransitions(trs, a)

\* a bug: the current transition is left open
CloseCurrent_NotClosed(trs, ct, at) == trs

\* current_transition.exited_at = datetime.utcnow(), when there is a current transition;
\* closes counts the writes of exited_at
CloseCurrent(trs, ct, at) ==
  IF ct = NULL THEN trs
  ELSE [trs EXCEPT ![ct].exited_at = at, ![ct].closes = @ + 1]

\* StageTransition(application_id, stage_id, sla_deadline, notes) with the column defaults
NewTransition(a, s, entered, deadline) ==
  [application_id |-> a, stage_id |-> s, entered_at |-> entered, exited_at |-> NULL,
   sla_deadline |-> deadline, is_escalated |-> FALSE, escalated_at |-> NULL,
   escalated_to |-> NULL, closes |-> 0]

\* ApplicationStatusHistory row
HistoryEntry(a, prev, new, by, reason) ==
  [application_id |-> a, previous_status |-> prev, new_status |-> new,
   changed_by |-> by, change_reason |-> reason]

\* the ValueError advance raises before it writes, or "ok"
AdvanceError(a, s) ==
  IF a \notin Applications THEN "ApplicationNotFound"
  ELSE IF s \notin StageIds THEN "StageNotFound"
  ELSE "ok"

\* the rows advance_application_to_stage commits together. ct is the current
\* transition it read, prev the status it read, at its utcnow() of lines 90
\* and 93; entered_at is the store's now() at the insert
AdvanceWrites(a, s, u, ct, prev, at) ==
  /\ transitions' = Append(CloseCurrent(transitions, ct, at),
                           NewTransition(a, s, now, at + WorkflowStages[s].sla_hours))
  /\ status' = [status EXCEPT ![a] = CanonicalStatus(WorkflowStages[s].name)]
  /\ history' = Append(history,
                  HistoryEntry(a, prev, CanonicalStatus(WorkflowStages[s].name), u,
                               <<"Advanced to stage", WorkflowStages[s].name>>))

\* a bug: the close of the current transition survives the failed commit
RolledBack_KeepsClose(trs, ct, at) == CloseCurrent(trs, ct, at)

\* stage_transitions after self.db.commit() raised: the session's writes (the
\* close of ct at time at, the new row) are rolled back with the transaction
RolledBack(trs, ct, at) == trs

\* self.db.commit() raises: nothing of the request is stored, and the
\* exception, which is no ValueError, leaves the handler
AdvanceCommitFails(ct, at) ==
  /\ transitions' = RolledBack(transitions, ct, at)
  /\ reply' = Reply("advance", "StoreError", NULL)
  /\ UNCHANGED <<status, history>>

\* POST /transitions, handled without interleaving
Advance(a, s, u) ==
  IF AdvanceError(a, s) # "ok"
  THEN /\ reply' = Reply("advance", AdvanceError(a, s), NULL)
       /\ UNCHANGED <<now, store, sessions, monitor, bulk, aside>>
  ELSE /\ \E ct \in CurrentTransitionChoices(transitions, a) :
            \/ /\ Rows < MaxRows
               /\ AdvanceWrites(a, s, u, ct, status[a], now)
               /\ reply' = Reply("advance", "ok", Len(transitions) + 1)
            \/ AdvanceCommitFails(ct, now)
       /\ UNCHANGED <<now, escalations, sessions, monitor, bulk, aside>>

\* POST /transitions in one of several server processes, up to its commit:
\* the application, the stage and the current transition are read (lines 66-87)
AdvanceRead(a, s, u) ==
  IF AdvanceError(a, s) # "ok"
  THEN /\ reply' = Reply("advance", AdvanceError(a, s), NULL)
       /\ UNCHANGED <<now, store, sessions, monitor, bulk, aside>>
  ELSE /\ Len(sessions) < MaxSessions
       /\ Rows + Len(sessions) < MaxRows
       /\ \E ct \in CurrentTransitionChoices(transitions, a) :
            sessions' = Append(sessions, [application_id |-> a, stage_id |-> s, user_id |-> u,
                                          current_transition |-> ct, old_status |-> status[a],
                                          at |-> now])
       /\ UNCHANGED <<now, store, reply, monitor, bulk, aside>>

\* the sequence without its i-th element
Remove(seq, i) == SubSeq(seq, 1, i - 1) \o SubSeq(seq, i + 1, Len(seq))

\* self.db.commit() of that request (line 119): no constraint of the store
\* rejects it, and it raises when the store fails
AdvanceCommit(i) ==
  /\ i \in DOMAIN sessions
  /\ \/ /\ Rows < MaxRows
        /\ AdvanceWrites(sessions[i].application_id, sessions[i].stage_id,
                         sessions[i].user_id, sessions[i].current_transition,
                         sessions[i].old_status, sessions[i].at)
        /\ reply' = Reply("advance", "ok", Len(transitions) + 1)
     \/ AdvanceCommitFails(sessions[i].current_transition, sessions[i].at)
  /\ sessions' = Remove(sessions, i)
  /\ UNCHANGED <<now, escalations, monitor, bulk, aside>>

----------------------------------------------------------------------------
(* SLA violations and escalations *)

\* a bug: a deadline that is reached, not passed, counts as overdue
IsOverdue_NotStrict(tr, at) ==
  /\ tr.exited_at = NULL
  /\ tr.sla_deadline <= at
  /\ tr.is_escalated = FALSE

\* a bug: the filter forgets is_escalated == False
IsOverdue_IgnoresEscalated(tr, at) ==
  /\ tr.exited_at = NULL
  /\ tr.sla_deadline < at

\* StageTransition rows with exited_at IS NULL, sla_deadline < now and is_escalated == False
IsOverdue(tr, at) ==
  /\ tr.exited_at = NULL
  /\ tr.sla_deadline < at
  /\ tr.is_escalated = FALSE

\* check_sla_violations(): the ids of the overdue rows, as a list
RECURSIVE OverdueFrom(_, _, _)
OverdueFrom(trs, at, i) ==
  IF i > Len(trs) THEN <<>>
  ELSE IF IsOverdue(trs[i], at) THEN <<i>> \o OverdueFrom(trs, at, i + 1)
  ELSE OverdueFrom(trs, at, i + 1)

check_sla_violations(trs, at) == OverdueFrom(trs, at, 1)

\* a bug: a transition exactly 24 hours overdue is still a warning
EscalationType_Inclusive(h) ==
  IF h <= 24 THEN "warning"
  ELSE IF h < 72 THEN "critical"
  ELSE "overdue"

\* the monitor's escalation type for a transition that is h hours overdue
EscalationType(h) ==
  IF h < 24 THEN "warning"
  ELSE IF h < 72 THEN "critical"
  ELSE "overdue"

\* SLAEscalation row; by_monitor and transition_open record who wrote it and
\* whether the stored transition had exited_at IS NULL when it was written
NewEscalation(trs, t, type, at, bym) ==
  [application_id |-> trs[t].application_id, stage_transition_id |-> t,
   escalation_type |-> type, escalated_to |-> JobCreator[JobOf[trs[t].application_id]],
   escalation_reason |-> at - trs[t].sla_deadline,
   is_resolved |-> FALSE, resolved_at |-> NULL, resolved_by |-> NULL,
   created_at |-> at, by_monitor |-> bym, transition_open |-> (trs[t].exited_at = NULL)]

\* a bug: the transition is stamped but its flag is not set
MarkEscalated_FlagNotSet(trs, t, at) ==
  [trs EXCEPT ![t].escalated_at = at,
              ![t].escalated_to = JobCreator[JobOf[trs[t].application_id]]]

\* stage_transition.is_escalated = True; escalated_at = utcnow(); escalated_to = job.created_by
MarkEscalated(trs, t, at) ==
  [trs EXCEPT ![t].is_escalated = TRUE,
              ![t].escalated_at = at,
              ![t].escalated_to = JobCreator[JobOf[trs[t].application_id]]]

\* a bug: the flag set on the object (line 174) is stored although the
\* escalation failed
EscalateFailed_FlagKept(trs, t, at) == MarkEscalated(trs, t, at)

\* escalate_sla_violation that raises: the job lookup (lines 156-162) raises
\* before anything is assigned, and a commit that fails (line 179) stores nothing
EscalateFailed(trs, t, at) == trs

\* escalate_sla_violation on each transition of the list, in order; the
\* escalation of the transitions in failing raises and is only logged (line 74)
RECURSIVE EscalateEach(_, _, _, _, _)
EscalateEach(trs, escs, list, at, failing) ==
  IF list = <<>> THEN [trs |-> trs, escs |-> escs]
  ELSE IF Head(list) \in failing
  THEN EscalateEach(EscalateFailed(trs, Head(list), at), escs, Tail(list), at, failing)
  ELSE EscalateEach(MarkEscalated(trs, Head(list), at),
                    Append(escs, NewEscalation(trs, Head(list),
                                   EscalationType(at - trs[Head(list)].sla_deadline), at, TRUE)),
                    Tail(list), at, failing)

\* POST /sla/escalate/{stage_transition_id}
Escalate(t, type) ==
  IF t \notin DOMAIN transitions
  THEN /\ reply' = Reply("escalate", "TransitionNotFound", NULL)
       /\ UNCHANGED <<now, store, sessions, monitor, bulk, aside>>
  ELSE /\ Rows + Len(sessions) < MaxRows
       /\ escalations' = Append(escalations, NewEscalation(transitions, t, type, now, FALSE))
       /\ transitions' = MarkEscalated(transitions, t, now)
       /\ reply' = Reply("escalate", "ok", Len(escalations) + 1)
       /\ UNCHANGED <<now, status, history, sessions, monitor, bulk, aside>>

\* a bug: resolving lowers the escalation to a warning
Resolved_TypeReset(esc, at, by) ==
  [esc EXCEPT !.is_resolved = TRUE, !.resolved_at = at, !.resolved_by = by,
              !.escalation_type = "warning"]

\* the three assignments of resolve_escalation (lines 257-259)
Resolved(esc, at, by) ==
  [esc EXCEPT !.is_resolved = TRUE, !.resolved_at = at, !.resolved_by = by]

\* PUT /escalations/{escalation_id}/resolve
Resolve(e, by) ==
  IF e \notin DOMAIN escalations
  THEN /\ reply' = Reply("resolve", "EscalationNotFound", NULL)
       /\ UNCHANGED <<now, store, sessions, monitor, bulk, aside>>
  ELSE /\ escalations' = [escalations EXCEPT ![e] = Resolved(@, now, by)]
       /\ reply' = Reply("resolve", "ok", e)
       /\ UNCHANGED <<now, status, transitions, history, sessions, monitor, bulk, aside>>

----------------------------------------------------------------------------
(* WorkflowService.get_application_timeline *)

\* the ids of the rows with application_id == a, in the order of the table
RECURSIVE TransitionsOf(_, _)
TransitionsOf(trs, a) ==
  IF trs = <<>> THEN <<>>
  ELSE LET rest == TransitionsOf(SubSeq(trs, 1, Len(trs) - 1), a)
       IN IF trs[Len(trs)].application_id = a THEN Append(rest, Len(trs)) ELSE rest

\* a bug: the rows are ordered by their deadline
TimelineKey_Deadline(tr) == tr.sla_deadline

\* the column of order_by(StageTransition.entered_at)
TimelineKey(tr) == tr.entered_at

\* ORDER BY of the store: ids by their key, rows of equal key in the order of the table
RECURSIVE OrderBy(_, _)
OrderBy(trs, ids) ==
  IF ids = <<>> THEN <<>>
  ELSE LET sorted == OrderBy(trs, SubSeq(ids, 1, Len(ids) - 1))
           t == ids[Len(ids)]
           k == Cardinality({i \in DOMAIN sorted :
                               TimelineKey(trs[sorted[i]]) <= TimelineKey(trs[t])})
       IN SubSeq(sorted, 1, k) \o <<t>> \o SubSeq(sorted, k + 1, Len(sorted))

\* duration is None unless exited_at is set
DurationHours(tr) ==
  IF tr.exited_at = NULL THEN NULL ELSE tr.exited_at - tr.entered_at

\* the dictionary appended for one transition
TimelineEntry(tr) ==
  [stage_name |-> WorkflowStages[tr.stage_id].name, entered_at |-> tr.entered_at,
   exited_at |-> tr.exited_at, duration_hours |-> DurationHours(tr),
   sla_deadline |-> tr.sla_deadline, is_escalated |-> tr.is_escalated]

\* GET /applications/{application_id}/timeline
get_application_timeline(trs, a) ==
  LET ids == OrderBy(trs, TransitionsOf(trs, a))
  IN [k \in DOMAIN ids |-> TimelineEntry(trs[ids[k]])]

\* what one pass of _check_sla_violations writes (lines 37-79)
ScanWrites ==
  LET overdue == check_sla_violations(transitions, now)
  IN \E failing \in SUBSET {overdue[k] : k \in DOMAIN overdue} :
       LET done == EscalateEach(transitions, escalations, overdue, now, failing)
       IN /\ Rows + Len(overdue) <= MaxRows
          /\ transitions' = done.trs
          /\ escalations' = done.escs
          /\ reply' = Reply("scan", "ok", Len(overdue))

\* one pass of SLAMonitorService._check_sla_violations, which never awaits
MonitorScan ==
  /\ ScanWrites
  /\ UNCHANGED <<now, status, history, sessions, monitor, bulk, aside>>

\* the started monitor at the test of its loop (line 24): is_running is the
\* flag of lines 16, 21 and 34, overdue and idx are the list and the position
\* of the loop of line 49, needs_rollback says that a commit of this pass's
\* session failed and no rollback() followed, stop_idx is the position the
\* pass was at when stop_monitoring was called
MonitorIdle ==
  [pc |-> "idle", overdue |-> <<>>, idx |-> 0, is_running |-> TRUE,
   needs_rollback |-> FALSE, stop_idx |-> NULL]

\* the pass against a store that other processes write: the test of line 24
\* and the query of line 44 on a new session (line 39)
MonitorQuery ==
  /\ monitor.pc = "idle"
  /\ monitor.is_running
  /\ monitor' = [monitor EXCEPT !.pc = "scanning",
                                !.overdue = check_sla_violations(transitions, now),
                                !.idx = 1,
                                !.needs_rollback = FALSE]
  /\ UNCHANGED <<now, store, reply, sessions, bulk, aside>>

\* one turn of its loop (lines 49-74) on the next transition of the list it
\* holds: the escalation is written, or it raises and is logged (line 74).
\* A commit that failed leaves the session needing a rollback() that the
\* handler of line 73 does not issue, so the later turns of the pass raise too
MonitorEscalate ==
  /\ monitor.pc = "scanning"
  /\ monitor.idx <= Len(monitor.overdue)
  /\ LET t == monitor.overdue[monitor.idx]
     IN \/ /\ ~monitor.needs_rollback
           /\ Rows + Len(sessions) < MaxRows
           /\ escalations' = Append(escalations,
                                NewEscalation(transitions, t,
                                  EscalationType(now - transitions[t].sla_deadline), now, TRUE))
           /\ transitions' = MarkEscalated(transitions, t, now)
           /\ monitor' = [monitor EXCEPT !.idx = @ + 1]
        \/ /\ transitions' = EscalateFailed(transitions, t, now)
           /\ escalations' = escalations
           /\ \E write_failed \in BOOLEAN :
                monitor' = [monitor EXCEPT !.idx = @ + 1,
                                           !.needs_rollback = @ \/ write_failed]
  /\ UNCHANGED <<now, status, history, reply, sessions, bulk, aside>>

\* the end of the pass (db.close(), line 79) and the sleep of line 27
MonitorFinish ==
  /\ monitor.pc = "scanning"
  /\ monitor.idx > Len(monitor.overdue)
  /\ monitor' = [monitor EXCEPT !.pc = "sleeping", !.overdue = <<>>, !.idx = 0,
                                !.needs_rollback = FALSE]
  /\ reply' = Reply("scan", "ok", Len(monitor.overdue))
  /\ UNCHANGED <<now, store, sessions, bulk, aside>>

\* the sleep of line 27 ends and the loop is back at its test
MonitorWake ==
  /\ monitor.pc = "sleeping"
  /\ monitor' = [monitor EXCEPT !.pc = "idle"]
  /\ UNCHANGED <<now, store, reply, sessions, bulk, aside>>

\* the test of line 24 finds is_running False and start_monitoring returns
MonitorExit ==
  /\ monitor.pc = "idle"
  /\ ~monitor.is_running
  /\ monitor' = [monitor EXCEPT !.pc = "stopped"]
  /\ UNCHANGED <<now, store, reply, sessions, bulk, aside>>

\* stop_monitoring(), called from a thread or a signal handler at any point
\* of the loop
stop_monitoring ==
  /\ monitor.is_running
  /\ monitor' = [monitor EXCEPT !.is_running = FALSE, !.stop_idx = monitor.idx]
  /\ UNCHANGED <<now, store, reply, sessions, bulk, aside>>

\* start_monitoring() called again on the service: is_running is set (line 21)
\* and the call runs a loop of its own (lines 24-30), at its test
start_monitoring ==
  /\ Len(loops) < MaxLoops
  /\ monitor' = [monitor EXCEPT !.is_running = TRUE]
  /\ loops' = Append(loops, [pc |-> "idle"])
  /\ UNCHANGED <<now, store, reply, sessions, bulk, notification_service, created_stages>>

\* the k-th of those loops passes its test and runs one pass, up to its sleep
LoopPass(k) ==
  /\ k \in DOMAIN loops
  /\ loops[k].pc = "idle"
  /\ monitor.is_running
  /\ ScanWrites
  /\ loops' = [loops EXCEPT ![k].pc = "sleeping"]
  /\ UNCHANGED <<now, status, history, sessions, monitor, bulk, notification_service,
                 created_stages>>

\* its sleep of line 27 ends
LoopWake(k) ==
  /\ k \in DOMAIN loops
  /\ loops[k].pc = "sleeping"
  /\ loops' = [loops EXCEPT ![k].pc = "idle"]
  /\ UNCHANGED <<now, store, reply, sessions, monitor, bulk, notification_service,
                 created_stages>>

\* its test of line 24 finds is_running False and the call returns
LoopExit(k) ==
  /\ k \in DOMAIN loops
  /\ loops[k].pc = "idle"
  /\ ~monitor.is_running
  /\ loops' = [loops EXCEPT ![k].pc = "stopped"]
  /\ UNCHANGED <<now, store, reply, sessions, monitor, bulk, notification_service,
                 created_stages>>

----------------------------------------------------------------------------
(* PUT /{application_id}/status of routers/applications.py *)

update_application_status(a, new_status, by, reason) ==
  /\ IF a \notin Applications
     THEN /\ reply' = Reply("status", "ApplicationNotFound", NULL)
          /\ UNCHANGED store
     ELSE \/ /\ Len(history) < MaxRows
             /\ history' = Append(history, HistoryEntry(a, status[a], new_status, by, reason))
             /\ status' = [status EXCEPT ![a] = new_status]
             /\ reply' = Reply("status", "ok", NULL)
             /\ UNCHANGED <<transitions, escalations>>
          \/ /\ reply' = Reply("status", "StoreError", NULL)
             /\ UNCHANGED store
  /\ UNCHANGED <<now, sessions, monitor, bulk, aside>>

----------------------------------------------------------------------------
(* Bulk operations of routers/applications.py *)

\* f"bulk_{len(ids)}_{new_status}_{changed_by}", as a list of its pieces
StatusOperationId(ids, new_status, by) ==
  <<"bulk_", ToString(Len(ids)), "_">> \o new_status \o <<"_", by>>

\* f"bulk_stage_{len(ids)}_{stage_id}_{changed_by}"
StageOperationId(ids, s, by) ==
  <<"bulk_stage_", ToString(Len(ids)), "_", ToString(s), "_", by>>

\* the dict both submit handlers store
NewProgress(ids) ==
  [total |-> Len(ids), processed |-> 0, successful |-> 0, failed |-> 0,
   status |-> "in_progress", errors |-> <<>>, started_at |-> NULL, completed_at |-> NULL]

\* bulk_operation_progress[operation_id] = {...}
Store(map, op, rec) ==
  [o \in DOMAIN map \cup {op} |-> IF o = op THEN rec ELSE map[o]]

\* del bulk_operation_progress[operation_id]
Delete(map, op) == [o \in DOMAIN map \ {op} |-> map[o]]

\* the applications the IN query of lines 118-120 finds
Found(ids) == {ids[i] : i \in DOMAIN ids} \cap Applications

\* background_tasks.add_task(...)
NewTask(kind, op, ids, target, by) ==
  [kind |-> kind, op_id |-> op, ids |-> ids, target |-> target, by |-> by,
   pc |-> "scheduled", idx |-> 0, rec |-> NULL, raised |-> FALSE,
   sent_notifications |-> <<>>, warnings |-> <<>>, needs_rollback |-> FALSE]

\* A background task is a coroutine that never awaits: once it has started, the
\* event loop runs nothing else of this process until it returns
LoopFree == \A i \in DOMAIN tasks : tasks[i].pc \notin {"running", "finally", "except"}

\* POST /bulk-action
bulk_status_update(ids, new_status, by) ==
  IF Cardinality(Found(ids)) # Len(ids)
  THEN /\ reply' = Reply("bulk_status", "UnknownApplications", NULL)
       /\ UNCHANGED <<now, store, sessions, monitor, bulk, aside>>
  ELSE /\ Len(tasks) < MaxOps
       /\ records' = Append(records, NewProgress(ids))
       /\ bulk_operation_progress' =
            Store(bulk_operation_progress, StatusOperationId(ids, new_status, by),
                  Len(records) + 1)
       /\ tasks' = Append(tasks, NewTask("status", StatusOperationId(ids, new_status, by),
                                         ids, new_status, by))
       /\ reply' = Reply("bulk_status", "ok", Len(tasks) + 1)
       /\ UNCHANGED <<now, store, sessions, monitor, aside>>

\* POST /bulk-reject
bulk_reject_applications(ids, by) == bulk_status_update(ids, Rejected, by)

\* POST /bulk-approve with the default next_stage
bulk_approve_applications(ids, by) == bulk_status_update(ids, Interview, by)

\* POST /bulk-move-stage
bulk_move_to_stage(ids, s, by) ==
  IF s \notin StageIds
  THEN /\ reply' = Reply("bulk_stage", "StageNotFound", NULL)
       /\ UNCHANGED <<now, store, sessions, monitor, bulk, aside>>
  ELSE /\ Len(tasks) < MaxOps
       /\ records' = Append(records, NewProgress(ids))
       /\ bulk_operation_progress' =
            Store(bulk_operation_progress, StageOperationId(ids, s, by), Len(records) + 1)
       /\ tasks' = Append(tasks, NewTask("stage", StageOperationId(ids, s, by), ids, s, by))
       /\ reply' = Reply("bulk_stage", "ok", Len(tasks) + 1)
       /\ UNCHANGED <<now, store, sessions, monitor, aside>>

\* progress = bulk_operation_progress[operation_id]; progress["started_at"] = utcnow().
\* The lookup is outside the try: a missing key ends the task
WorkerStart(i) ==
  /\ i \in DOMAIN tasks
  /\ tasks[i].pc = "scheduled"
  /\ LoopFree
  /\ IF tasks[i].op_id \in DOMAIN bulk_operation_progress
     THEN /\ tasks' = [tasks EXCEPT ![i].pc = "running", ![i].idx = 1,
                                    ![i].rec = bulk_operation_progress[tasks[i].op_id]]
          /\ records' = [records EXCEPT
                           ![bulk_operation_progress[tasks[i].op_id]].started_at = now]
     ELSE /\ tasks' = [tasks EXCEPT ![i].pc = "crashed"]
          /\ UNCHANGED records
  /\ UNCHANGED <<now, store, reply, sessions, monitor, bulk_operation_progress, aside>>

\* progress["errors"].append(...); progress["failed"] += 1
ItemFailed(recs, r, a, msg) ==
  [recs EXCEPT ![r].errors = Append(@, <<a, msg>>), ![r].failed = @ + 1]

\* the items on which a call of the store has raised so far
RECURSIVE StoreFailures(_)
StoreFailures(recs) ==
  IF recs = <<>> THEN 0
  ELSE Cardinality({k \in DOMAIN Head(recs).errors :
                      Head(recs).errors[k][2] \in {"commit failed", "refresh failed"}})
       + StoreFailures(Tail(recs))

\* a bug: the item is counted as processed together with its outcome
ItemSucceeded_CountsProcessed(recs, r) ==
  [recs EXCEPT ![r].successful = @ + 1, ![r].processed = @ + 1]

\* progress["successful"] += 1
ItemSucceeded(recs, r) == [recs EXCEPT ![r].successful = @ + 1]

\* a bug: the test of should_send_notification leaves out withdrawn
should_send_notification_NoWithdrawn(new_status) ==
  new_status \in {Screening, Interview, TechnicalTest, FinalInterview, Offer, Hired, Rejected}

\* NotificationService.should_send_notification
should_send_notification(new_status) ==
  new_status \in {Screening, Interview, TechnicalTest, FinalInterview,
                  Offer, Hired, Rejected, Withdrawn}

\* a bug: the hiring manager is a recipient of every notification
Recipients_ManagerAlways(a, new_status) ==
  <<[type |-> "candidate", of |-> a],
    [type |-> "hiring_manager", of |-> JobCreator[JobOf[a]]]>>

\* the recipients of lines 55-75: the candidate, and the user who created the
\* job for four of the statuses
Recipients(a, new_status) ==
  <<[type |-> "candidate", of |-> a]>>
  \o IF new_status \in {Interview, Offer, Hired, Rejected} /\ JobCreator[JobOf[a]] \in Users
     THEN <<[type |-> "hiring_manager", of |-> JobCreator[JobOf[a]]]>>
     ELSE <<>>

\* a bug: the id is made of the application and of the time of the call
send_status_change_notification_IdFromTime(a, h, entry, at) ==
  [notification_id |-> <<"notif_", a, "_", ToString(at)>>,
   application_id |-> a,
   status_change |-> h,
   previous_status |-> entry.previous_status,
   new_status |-> entry.new_status,
   sent_at |-> at,
   recipients |-> Recipients(a, entry.new_status)]

\* the dict send_status_change_notification appends to sent_notifications, for
\* the history row with id h, called at time at; status_change records the
\* row the dict was built from
send_status_change_notification(a, h, entry, at) ==
  [notification_id |-> <<"notif_", a, "_", ToString(h)>>,
   application_id |-> a,
   status_change |-> h,
   previous_status |-> entry.previous_status,
   new_status |-> entry.new_status,
   sent_at |-> at,
   recipients |-> Recipients(a, entry.new_status)]

\* a bug: an item whose notification raised is counted as failed
NotificationFailed_ItemFailed(recs, r, a) == ItemFailed(recs, r, a, "notification failed")

\* send_status_change_notification raised: the except clause of lines 210-211
\* logs a warning and line 213 counts the item
NotificationFailed(recs, r, a) == ItemSucceeded(recs, r)

\* the task's fields when the try block of one id is left
ItemDone(i, raised, sent, warnings, needs_rollback) ==
  [tasks EXCEPT ![i].pc = "finally", ![i].raised = raised,
                ![i].sent_notifications = sent, ![i].warnings = warnings,
                ![i].needs_rollback = needs_rollback]

\* the try block of process_bulk_status_update for one id (lines 176-220).
\* The commit of line 201 and the refresh of line 202 succeed or raise; the
\* except clause then counts the item as failed and calls db.rollback()
\* (line 220), which returns or raises in its turn: raised says that an
\* exception leaves the except clause. After the refresh the notification is
\* sent if should_send_notification says so, and a send that raises is logged
StatusItem(i, raised) ==
  LET t == tasks[i]
      a == t.ids[t.idx]
      entry == HistoryEntry(a, status[a], t.target, t.by, <<"Bulk operation">>)
      keep == ItemDone(i, raised, t.sent_notifications, t.warnings, FALSE)
  IN /\ t.kind = "status"
     /\ IF a \notin Applications
        THEN /\ raised = FALSE
             /\ records' = ItemFailed(records, t.rec, a, "not found")
             /\ tasks' = keep
             /\ UNCHANGED store
        ELSE \/ /\ raised = FALSE
                /\ history' = Append(history, entry)
                /\ status' = [status EXCEPT ![a] = t.target]
                /\ UNCHANGED <<transitions, escalations>>
                /\ IF should_send_notification(t.target)
                   THEN \/ /\ records' = ItemSucceeded(records, t.rec)
                           /\ tasks' = ItemDone(i, FALSE,
                                         Append(t.sent_notifications,
                                           send_status_change_notification(
                                             a, Len(history) + 1, entry, now)),
                                         t.warnings, FALSE)
                        \/ /\ records' = NotificationFailed(records, t.rec, a)
                           /\ tasks' = ItemDone(i, FALSE, t.sent_notifications,
                                                Append(t.warnings, a), FALSE)
                   ELSE /\ records' = ItemSucceeded(records, t.rec)
                        /\ tasks' = keep
             \/ /\ StoreFailures(records) < MaxStoreFailures
                /\ records' = ItemFailed(records, t.rec, a, "commit failed")
                /\ tasks' = keep
                /\ UNCHANGED store
             \/ /\ StoreFailures(records) < MaxStoreFailures
                /\ history' = Append(history, entry)
                /\ status' = [status EXCEPT ![a] = t.target]
                /\ records' = ItemFailed(records, t.rec, a, "refresh failed")
                /\ tasks' = keep
                /\ UNCHANGED <<transitions, escalations>>

\* the try block of process_bulk_stage_movement for one id (lines 380-395):
\* advance_application_to_stage returns or raises, and the except clause
\* only counts. It issues no rollback(), so after a commit that failed the
\* session refuses every later query of the task
StageItem(i) ==
  LET t == tasks[i]
      a == t.ids[t.idx]
      keep == ItemDone(i, FALSE, t.sent_notifications, t.warnings, t.needs_rollback)
  IN /\ t.kind = "stage"
     /\ IF t.needs_rollback
        THEN /\ records' = ItemFailed(records, t.rec, a, "needs rollback")
             /\ tasks' = keep
             /\ UNCHANGED store
        ELSE IF AdvanceError(a, t.target) # "ok"
        THEN /\ records' = ItemFailed(records, t.rec, a, AdvanceError(a, t.target))
             /\ tasks' = keep
             /\ UNCHANGED store
        ELSE \/ /\ Rows < MaxRows
                /\ \E ct \in CurrentTransitionChoices(transitions, a) :
                     AdvanceWrites(a, t.target, t.by, ct, status[a], now)
                /\ records' = ItemSucceeded(records, t.rec)
                /\ tasks' = keep
                /\ UNCHANGED escalations
             \/ /\ StoreFailures(records) < MaxStoreFailures
                /\ records' = ItemFailed(records, t.rec, a, "commit failed")
                /\ tasks' = ItemDone(i, FALSE, t.sent_notifications, t.warnings, TRUE)
                /\ UNCHANGED store

\* one id of the worker's loop, up to its finally clause
WorkerItem(i) ==
  /\ i \in DOMAIN tasks
  /\ tasks[i].pc = "running"
  /\ tasks[i].idx <= Len(tasks[i].ids)
  /\ \E raised \in BOOLEAN : StatusItem(i, raised) \/ (raised = FALSE /\ StageItem(i))
  /\ UNCHANGED <<now, reply, sessions, monitor, bulk_operation_progress, aside>>

\* finally: progress["processed"] += 1; then the next id, or the exception
\* that is leaving the loop goes on to the outer except clause
WorkerFinally(i) ==
  /\ i \in DOMAIN tasks
  /\ tasks[i].pc = "finally"
  /\ records' = [records EXCEPT ![tasks[i].rec].processed = @ + 1]
  /\ tasks' = IF tasks[i].raised
              THEN [tasks EXCEPT ![i].pc = "except"]
              ELSE [tasks EXCEPT ![i].pc = "running", ![i].idx = @ + 1]
  /\ UNCHANGED <<now, store, reply, sessions, monitor, bulk_operation_progress, aside>>

\* except Exception: progress["status"] = "failed"; completed_at; errors.append(...)
WorkerFail(i) ==
  /\ i \in DOMAIN tasks
  /\ tasks[i].pc = "except"
  /\ records' = [records EXCEPT ![tasks[i].rec].status = "failed",
                                ![tasks[i].rec].completed_at = now,
                                ![tasks[i].rec].errors =
                                   Append(@, <<"operation", "Bulk operation failed">>)]
  /\ tasks' = [tasks EXCEPT ![i].pc = "done"]
  /\ UNCHANGED <<now, store, reply, sessions, monitor, bulk_operation_progress, aside>>

\* after the loop: progress["status"] = "completed"; progress["completed_at"] = utcnow()
WorkerComplete(i) ==
  /\ i \in DOMAIN tasks
  /\ tasks[i].pc = "running"
  /\ tasks[i].idx > Len(tasks[i].ids)
  /\ records' = [records EXCEPT ![tasks[i].rec].status = "completed",
                                ![tasks[i].rec].completed_at = now]
  /\ tasks' = [tasks EXCEPT ![i].pc = "done"]
  /\ UNCHANGED <<now, store, reply, sessions, monitor, bulk_operation_progress, aside>>

\* the names and the order_index of default_stages (lines 24-31)
DefaultStageNames ==
  <<"Applied", "Initial Screening", "Technical Assessment", "Interview",
    "Final Review", "Decision">>

\* the rows create_default_workflow_stages adds for a job
DefaultStages(job) ==
  [k \in DOMAIN DefaultStageNames |->
     [job_id |-> job, name |-> DefaultStageNames[k], order_index |-> k, by_default |-> TRUE]]

\* the requests of one kind that created the rows so far
StageRequests(rows, by_default) ==
  IF by_default
  THEN Cardinality({k \in DOMAIN rows : rows[k].by_default}) \div Len(DefaultStageNames)
  ELSE Cardinality({k \in DOMAIN rows : ~rows[k].by_default})

\* POST /stages/job/{job_id}/default
create_default_workflow_stages(job) ==
  /\ StageRequests(created_stages, TRUE) < MaxStageRequests
  /\ created_stages' = created_stages \o DefaultStages(job)
  /\ reply' = Reply("default_stages", "ok", Len(DefaultStageNames))
  /\ UNCHANGED <<now, store, sessions, monitor, bulk, notification_service, loops>>

\* POST /stages: WorkflowStage(**stage_data.dict()) with the order_index of the
\* request body
create_workflow_stage(job, name, order_index) ==
  /\ StageRequests(created_stages, FALSE) < MaxStageRequests
  /\ created_stages' = Append(created_stages,
                              [job_id |-> job, name |-> name, order_index |-> order_index,
                               by_default |-> FALSE])
  /\ reply' = Reply("stage", "ok", Len(created_stages) + 1)
  /\ UNCHANGED <<now, store, sessions, monitor, bulk, notification_service, loops>>

\* a caller that holds a NotificationService sends the notification of a
\* stored status change, again if it likes
SendNotification(h) ==
  /\ h \in DOMAIN history
  /\ Len(notification_service) < MaxSent
  /\ notification_service' =
       Append(notification_service,
              send_status_change_notification(history[h].application_id, h, history[h], now))
  /\ reply' = Reply("notify", "ok", h)
  /\ UNCHANGED <<now, store, sessions, monitor, bulk, created_stages, loops>>

\* DELETE /bulk-operations/{operation_id}
cleanup_bulk_operation(op) ==
  /\ LoopFree
  /\ IF op \notin DOMAIN bulk_operation_progress
     THEN /\ reply' = Reply("cleanup", "OperationNotFound", NULL)
          /\ UNCHANGED bulk_operation_progress
     ELSE IF records[bulk_operation_progress[op]].status = "in_progress"
     THEN /\ reply' = Reply("cleanup", "OperationInProgress", NULL)
          /\ UNCHANGED bulk_operation_progress
     ELSE /\ reply' = Reply("cleanup", "ok", bulk_operation_progress[op])
          /\ bulk_operation_progress' = Delete(bulk_operation_progress, op)
  /\ UNCHANGED <<now, store, sessions, monitor, records, tasks, aside>>

\* a request to cancel operation op: the router has no route for it, and no
\* handler or worker reads or writes a cancellation flag
cancel(op) ==
  /\ LoopFree
  /\ reply' = Reply("cancel", "NotFound", NULL)
  /\ UNCHANGED <<now, store, sessions, monitor, bulk, aside>>

----------------------------------------------------------------------------
\* time passes
Tick ==
  /\ now < MaxClock
  /\ now' = now + 1
  /\ UNCHANGED <<store, reply, sessions, monitor, bulk, aside>>

\* the hours at which the monitor's clock is read: either side of the
\* thresholds of lines 55-60 for a deadline one hour after the start
Instants == {0, 24, 25, 72, 73}

\* time passes by hours or days
Elapse ==
  /\ \E at \in Instants : at > now /\ now' = at
  /\ UNCHANGED <<store, reply, sessions, monitor, bulk, aside>>

Init ==
  /\ now = 0
  /\ status = [a \in Applications |-> DefaultStatus]
  /\ transitions = <<>>
  /\ escalations = <<>>
  /\ history = <<>>
  /\ reply = Reply("none", "ok", NULL)
  /\ sessions = <<>>
  /\ monitor = MonitorIdle
  /\ records = <<>>
  /\ bulk_operation_progress = <<>>
  /\ tasks = <<>>
  /\ notification_service = <<>>
  /\ created_stages = <<>>
  /\ loops = <<>>

AdvanceRequest == \E a \in ApplicationIds, s \in StageInputs : Advance(a, s, "U")

EscalateRequest == \E t \in 1..MaxRows : Escalate(t, "overdue")

ResolveRequest == \E e \in 1..MaxRows : Resolve(e, "U")

AdvanceReadRequest == \E a \in ApplicationIds, s \in StageInputs : AdvanceRead(a, s, "U")

AdvanceCommitStep == \E i \in 1..MaxSessions : AdvanceCommit(i)

BulkStatusRequest ==
  LoopFree /\ \E ids \in IdLists : bulk_status_update(ids, Screening, "U")

BulkRejectRequest ==
  LoopFree /\ \E ids \in IdLists : bulk_reject_applications(ids, "U")

BulkApproveRequest ==
  LoopFree /\ \E ids \in IdLists : bulk_approve_applications(ids, "U")

BulkMoveRequest ==
  LoopFree /\ \E ids \in IdLists, s \in BulkStageInputs : bulk_move_to_stage(ids, s, "U")

\* an operation id nobody was given
UnknownOperation == <<"bulk_0">>

CleanupRequest ==
  \E op \in {tasks[i].op_id : i \in DOMAIN tasks} \cup {UnknownOperation} :
    cleanup_bulk_operation(op)

WorkerStartStep == \E i \in 1..MaxOps : WorkerStart(i)

WorkerItemStep == \E i \in 1..MaxOps : WorkerItem(i)

WorkerFinallyStep == \E i \in 1..MaxOps : WorkerFinally(i)

WorkerCompleteStep == \E i \in 1..MaxOps : WorkerComplete(i)

WorkerFailStep == \E i \in 1..MaxOps : WorkerFail(i)

CancelRequest ==
  \E op \in {tasks[i].op_id : i \in DOMAIN tasks} \cup {UnknownOperation} : cancel(op)

\* POST /transitions with the id of any stage row
AdvanceStageRequest ==
  /\ Len(history) < MaxRows
  /\ \E a \in ApplicationIds, s \in AllStageInputs : Advance(a, s, "U")

\* POST /transitions that puts an application on the first stage of its job
FirstStageRequest == \E a \in Applications : Advance(a, 1, "U")

\* POST /bulk-action with any status, as the first bulk operation
FirstBulkStatusRequest ==
  /\ tasks = <<>>
  /\ \E ids \in IdLists, new_status \in StatusInputs : bulk_status_update(ids, new_status, "U")

\* POST /bulk-move-stage as the first bulk operation
FirstBulkMoveRequest ==
  /\ tasks = <<>>
  /\ \E ids \in IdLists, s \in BulkStageInputs : bulk_move_to_stage(ids, s, "U")

SendRequest == \E h \in 1..MaxRows : SendNotification(h)

\* the id of the stage named Interview
InterviewStage == 5

\* POST /transitions that moves an application to the Interview stage
InterviewRequest == \E a \in Applications : Advance(a, InterviewStage, "U")

\* POST /bulk-move-stage of both applications to the Interview stage, as the
\* first bulk operation
BulkInterviewRequest ==
  /\ tasks = <<>>
  /\ bulk_move_to_stage(<<"A", "B">>, InterviewStage, "U")

\* the job_id of stage requests
Jobs == {"J1", "J2"}

\* the order_index of POST /stages bodies: any integer
OrderInputs == {0, 1, 2, 7}

DefaultStagesRequest == \E job \in Jobs : create_default_workflow_stages(job)

StageRequest ==
  \E job \in Jobs, order_index \in OrderInputs : create_workflow_stage(job, "Extra", order_index)

StatusUpdateRequest ==
  \E a \in ApplicationIds : update_application_status(a, Screening, "U", <<"manual">>)

\* one server process: handlers and monitor passes run one at a time
Next ==
  \/ Tick
  \/ AdvanceRequest
  \/ EscalateRequest
  \/ ResolveRequest
  \/ MonitorScan

Spec == Init /\ [][Next]_vars

\* several server processes and the monitor on one store
NextConc ==
  \/ Tick
  \/ AdvanceReadRequest
  \/ AdvanceCommitStep
  \/ EscalateRequest
  \/ ResolveRequest
  \/ MonitorQuery
  \/ MonitorEscalate
  \/ MonitorFinish
  \/ MonitorWake

SpecConc == Init /\ [][NextConc]_vars

\* the monitor loop over days, with requests between its turns and a stop
NextMonitor ==
  \/ Elapse
  \/ FirstStageRequest
  \/ MonitorQuery
  \/ MonitorEscalate
  \/ MonitorFinish
  \/ MonitorWake
  \/ MonitorExit
  \/ stop_monitoring

SpecMonitor == Init /\ [][NextMonitor]_vars

\* advances to any stage row and single status updates, one at a time
NextStages ==
  \/ AdvanceStageRequest
  \/ StatusUpdateRequest

SpecStages == Init /\ [][NextStages]_vars

\* the bulk endpoints and their background tasks
NextBulk ==
  \/ BulkStatusRequest
  \/ BulkRejectRequest
  \/ BulkApproveRequest
  \/ BulkMoveRequest
  \/ WorkerStartStep
  \/ WorkerItemStep
  \/ WorkerFinallyStep
  \/ WorkerCompleteStep
  \/ WorkerFailStep
  \/ CleanupRequest
  \/ CancelRequest

SpecBulk == Init /\ [][NextBulk]_vars

\* one bulk status update, with the notifications of its items
NextNotify ==
  \/ FirstBulkStatusRequest
  \/ WorkerStartStep
  \/ WorkerItemStep
  \/ WorkerFinallyStep
  \/ WorkerCompleteStep
  \/ WorkerFailStep

SpecNotify == Init /\ [][NextNotify]_vars

\* status changes and a caller that sends their notifications at any time
NextPlanner ==
  \/ Tick
  \/ StatusUpdateRequest
  \/ SendRequest

SpecPlanner == Init /\ [][NextPlanner]_vars

\* advances to the Interview stage, single and in bulk
NextEvents ==
  \/ InterviewRequest
  \/ BulkInterviewRequest
  \/ WorkerStartStep
  \/ WorkerItemStep
  \/ WorkerFinallyStep
  \/ WorkerCompleteStep

SpecEvents == Init /\ [][NextEvents]_vars

\* the requests that create stage rows
NextSetup ==
  \/ DefaultStagesRequest
  \/ StageRequest

SpecSetup == Init /\ [][NextSetup]_vars

\* advances and the passing of time, one request at a time
NextTimeline ==
  \/ Tick
  \/ AdvanceRequest

SpecTimeline == Init /\ [][NextTimeline]_vars

LoopPassStep == \E k \in 1..MaxLoops : LoopPass(k)

LoopWakeStep == \E k \in 1..MaxLoops : LoopWake(k)

LoopExitStep == \E k \in 1..MaxLoops : LoopExit(k)

\* the started monitor with further calls of start_monitoring and of
\* stop_monitoring on the same service
NextLoops ==
  \/ Tick
  \/ FirstStageRequest
  \/ MonitorQuery
  \/ MonitorEscalate
  \/ MonitorFinish
  \/ MonitorWake
  \/ MonitorExit
  \/ stop_monitoring
  \/ start_monitoring
  \/ LoopPassStep
  \/ LoopWakeStep
  \/ LoopExitStep

SpecLoops == Init /\ [][NextLoops]_vars

\* one bulk operation of either kind, from its submission to its end
NextOperation ==
  \/ FirstBulkStatusRequest
  \/ FirstBulkMoveRequest
  \/ WorkerStartStep
  \/ WorkerItemStep
  \/ WorkerFinallyStep
  \/ WorkerCompleteStep
  \/ WorkerFailStep

SpecOperation == Init /\ [][NextOperation]_vars

\* the statements of the i-th background task
Worker(i) ==
  \/ WorkerStart(i)
  \/ WorkerItem(i)
  \/ WorkerFinally(i)
  \/ WorkerComplete(i)
  \/ WorkerFail(i)

\* bulk status updates and their background tasks
NextFair ==
  \/ BulkStatusRequest
  \/ WorkerStartStep
  \/ WorkerItemStep
  \/ WorkerFinallyStep
  \/ WorkerCompleteStep
  \/ WorkerFailStep

\* a background task that was added is run after its response is sent, and
\* one that runs goes on to its return
SpecFair ==
  /\ Init
  /\ [][NextFair]_vars
  /\ \A i \in 1..MaxOps : WF_vars(Worker(i))

----------------------------------------------------------------------------
(* Properties of the workflow engine *)

\* C1: after any sequence of advance calls executed one after the other, every
\* application has at most one stage transition whose exited_at is null.
C1_AtMostOneOpenTransition ==
  \A a \in Applications : Cardinality(OpenTransitions(transitions, a)) <= 1

\* an application advanced twice: its first transition is closed, its second is open
C1_Witness ==
  \E a \in Applications : \E t1, t2 \in DOMAIN transitions :
    /\ t1 < t2
    /\ transitions[t1].application_id = a
    /\ transitions[t2].application_id = a
    /\ transitions[t1].exited_at # NULL
    /\ transitions[t2].exited_at = NULL

\* C2: when two advance calls for one application overlap (each reads the open
\* transition before the other commits), the application never ends up with two
\* open transitions, and no transition is closed twice.
C2_ConcurrentAdvanceLinearizable ==
  /\ \A a \in Applications : Cardinality(OpenTransitions(transitions, a)) < 2
  /\ \A t \in DOMAIN transitions : transitions[t].closes <= 1

\* C3: advance to the stage the open transition already refers to returns that
\* open transition and changes nothing: no new transition, exited_at stays null,
\* no history entry.
C3_AdvanceToSameStageIdempotent ==
  [][\A a \in Applications, s \in StageIds :
       ( /\ \E t \in OpenTransitions(transitions, a) : transitions[t].stage_id = s
         /\ Advance(a, s, "U") )
       => /\ transitions' = transitions
          /\ history' = history
          /\ reply'.id \in OpenTransitions(transitions, a)]_vars

\* the escalations the monitor wrote for transition t
MonitorEscalationsOf(t) ==
  {e \in DOMAIN escalations :
     escalations[e].by_monitor /\ escalations[e].stage_transition_id = t}

\* the transitions check_sla_violations returns now
OverdueNow ==
  {check_sla_violations(transitions, now)[i] :
     i \in DOMAIN check_sla_violations(transitions, now)}

\* C4: across any sequence of monitor scans a transition acquires at most one
\* escalation written by the monitor, and a transition a scan has escalated is
\* no longer returned by check_sla_violations.
C4_AtMostOneMonitorEscalation ==
  \A t \in DOMAIN transitions :
    /\ Cardinality(MonitorEscalationsOf(t)) <= 1
    /\ MonitorEscalationsOf(t) # {} => t \notin OverdueNow

\* a scan has escalated a transition that is still open and overdue, and the
\* latest scan after it wrote nothing
C4_Witness ==
  /\ reply = Reply("scan", "ok", 0)
  /\ \E t \in DOMAIN transitions :
       /\ MonitorEscalationsOf(t) # {}
       /\ transitions[t].exited_at = NULL
       /\ transitions[t].sla_deadline < now

\* C5: every escalation the monitor writes references a transition that is open
\* when the escalation is written and whose sla_deadline is earlier than the
\* escalation's creation time, also when an advance closes the transition between
\* the monitor's query and its escalate call.
C5_MonitorEscalatesOpenOverdue ==
  \A e \in DOMAIN escalations :
    escalations[e].by_monitor =>
      /\ escalations[e].transition_open
      /\ transitions[escalations[e].stage_transition_id].sla_deadline < escalations[e].created_at

\* C6 as stated: is_escalated is true if and only if an unresolved escalation
\* references the transition.
C6_EscalatedIffUnresolvedEscalation ==
  \A t \in DOMAIN transitions :
    transitions[t].is_escalated <=>
      \E e \in DOMAIN escalations :
        escalations[e].stage_transition_id = t /\ ~escalations[e].is_resolved

\* C6 (amended): is_escalated is true if and only if an escalation, resolved or
\* not, references the transition.
C6_EscalatedIffEscalation ==
  \A t \in DOMAIN transitions :
    transitions[t].is_escalated <=>
      \E e \in DOMAIN escalations : escalations[e].stage_transition_id = t

\* a transition whose escalations are all resolved and whose flag is still set
C6_Witness ==
  \E t \in DOMAIN transitions :
    /\ transitions[t].is_escalated
    /\ \E e \in DOMAIN escalations : escalations[e].stage_transition_id = t
    /\ \A e \in DOMAIN escalations :
         escalations[e].stage_transition_id = t => escalations[e].is_resolved

\* C7: escalate on a transition whose is_escalated is already true creates no
\* escalation row, returns an existing escalation of it, and leaves escalated_at
\* and escalated_to as the first escalation wrote them.
C7_EscalateAlreadyEscalated ==
  [][\A t \in DOMAIN transitions :
       (transitions[t].is_escalated /\ Escalate(t, "overdue"))
       => /\ escalations' = escalations
          /\ transitions'[t].escalated_at = transitions[t].escalated_at
          /\ transitions'[t].escalated_to = transitions[t].escalated_to
          /\ reply'.id \in {e \in DOMAIN escalations :
                              escalations[e].stage_transition_id = t}]_vars

\* C8: resolve on an escalation that is already resolved fails with
\* AlreadyResolved and leaves resolved_at and resolved_by as first written;
\* resolve on an unknown escalation id fails with EscalationNotFound.
C8_ResolveErrors ==
  [][\A e \in 1..MaxRows :
       Resolve(e, "U")
       => IF e \notin DOMAIN escalations
          THEN reply'.res = "EscalationNotFound" /\ escalations' = escalations
          ELSE escalations[e].is_resolved
               => /\ reply'.res = "AlreadyResolved"
                  /\ escalations'[e].resolved_at = escalations[e].resolved_at
                  /\ escalations'[e].resolved_by = escalations[e].resolved_by]_vars

----------------------------------------------------------------------------
(* Properties of the bulk operations *)

\* the list names an application that does not exist
HasUnknown(ids) == \E i \in DOMAIN ids : ids[i] \notin Applications

\* a bulk request of any kind for the list ids (to an existing stage, for a move)
BulkSubmission(ids) ==
  \/ bulk_status_update(ids, Screening, "U")
  \/ bulk_reject_applications(ids, "U")
  \/ bulk_approve_applications(ids, "U")
  \/ \E s \in StageIds : bulk_move_to_stage(ids, s, "U")

\* C9: a bulk submission of any kind whose id list contains an application id
\* that does not exist fails with UnknownApplications, creates no progress
\* record, starts no worker and leaves every application unchanged.
C9_UnknownApplicationsRejected ==
  [][\A ids \in IdLists :
       (HasUnknown(ids) /\ BulkSubmission(ids))
       => /\ reply'.res = "UnknownApplications"
          /\ UNCHANGED <<records, bulk_operation_progress, tasks>>
          /\ UNCHANGED <<status, transitions, history>>]_vars

\* no worker is between an item's counter and its processed += 1 on record r
AtItemBoundary(r) == \A i \in DOMAIN tasks : tasks[i].rec = r => tasks[i].pc # "finally"

\* C10: at every observation of a progress record, with several operations
\* submitted and between the items of a running worker,
\* processed = successful + failed and processed <= total.
C10_ProgressCounters ==
  \A op \in DOMAIN bulk_operation_progress :
    LET r == bulk_operation_progress[op]
    IN /\ records[r].processed <= records[r].total
       /\ AtItemBoundary(r) => records[r].processed = records[r].successful + records[r].failed

\* C11: whenever a bulk operation's status is terminal and is not cancelled
\* (completed or failed), its processed count equals its total.
C11_TerminalProcessedAll ==
  \A op \in DOMAIN bulk_operation_progress :
    LET r == bulk_operation_progress[op]
    IN records[r].status \in {"completed", "failed"}
       => records[r].processed = records[r].total

\* C12: a bulk operation has status completed only if all its items were
\* processed and at least one item succeeded or total was zero; it has status
\* failed only if an exception interrupted a worker of it.
C12_TerminalStatusMeaning ==
  \A op \in DOMAIN bulk_operation_progress :
    LET r == bulk_operation_progress[op]
    IN /\ records[r].status = "completed"
          => /\ records[r].processed = records[r].total
             /\ records[r].successful >= 1 \/ records[r].total = 0
       /\ records[r].status = "failed"
          => \E i \in DOMAIN tasks : tasks[i].rec = r /\ tasks[i].raised

\* C13: cancel(op_id) on a bulk operation that is not yet terminal is accepted:
\* the worker dispatches no new item after the next item boundary, applied
\* items stay applied and the terminal status is cancelled; cancel on a
\* terminal operation fails with OperationTerminal. The formula states what
\* the request answers and that an accepted cancel leaves the record in
\* progress or cancelled.
C13_Cancel ==
  [][\A op \in DOMAIN bulk_operation_progress :
       cancel(op)
       => IF records[bulk_operation_progress[op]].status # "in_progress"
          THEN reply'.res = "OperationTerminal" /\ records' = records
          ELSE /\ reply'.res = "ok"
               /\ op \in DOMAIN bulk_operation_progress'
               /\ records'[bulk_operation_progress'[op]].status
                    \in {"in_progress", "cancelled"}]_vars

\* C14: cleanup(op_id) removes a progress record only when the operation is
\* terminal; on an operation in progress it fails with OperationInProgress and
\* leaves the record, on an unknown op_id it fails with OperationNotFound; and
\* no record leaves the map other than by such a cleanup.
C14_Cleanup ==
  [][/\ \A op \in DOMAIN bulk_operation_progress \cup {UnknownOperation} :
          cleanup_bulk_operation(op)
          => IF op \notin DOMAIN bulk_operation_progress
             THEN /\ reply'.res = "OperationNotFound"
                  /\ bulk_operation_progress' = bulk_operation_progress
             ELSE IF records[bulk_operation_progress[op]].status = "in_progress"
             THEN /\ reply'.res = "OperationInProgress"
                  /\ bulk_operation_progress' = bulk_operation_progress
             ELSE op \notin DOMAIN bulk_operation_progress'
     /\ \A op \in DOMAIN bulk_operation_progress :
          ( \/ op \notin DOMAIN bulk_operation_progress'
            \/ bulk_operation_progress'[op] # bulk_operation_progress[op] )
          => /\ cleanup_bulk_operation(op)
             /\ records[bulk_operation_progress[op]].status # "in_progress"]_vars

----------------------------------------------------------------------------
(* Properties of advance and of the status history *)

C16_SlaDeadline ==
  [][\A t \in DOMAIN transitions' :
       /\ transitions'[t].sla_deadline
            = transitions'[t].entered_at + WorkflowStages[transitions'[t].stage_id].sla_hours
       /\ t \in DOMAIN transitions
            => transitions'[t].sla_deadline = transitions[t].sla_deadline]_vars

\* the stage names lower-cased, with underscores for spaces, written out
C17_Expected ==
  << <<"a","p","p","l","i","e","d">>,
     <<"p","h","o","n","e","_","s","c","r","e","e","n">>,
     <<"s","p","a","r","e">>,
     <<"p","a","n","e","l">>,
     <<"i","n","t","e","r","v","i","e","w">> >>

\* the stage of the open transitions of application a
CurrentStages(a) == {transitions[t].stage_id : t \in OpenTransitions(transitions, a)}

\* C17: a successful advance to a stage other than the current one sets the
\* application's status to the stage name lower-cased with spaces replaced by
\* underscores, and appends one history entry whose previous_status is the
\* status before the call, whose new_status is the new status and whose user
\* is the actor.
C17_StatusAndHistory ==
  [][\A a \in Applications, s \in StageIds :
       (s \notin CurrentStages(a) /\ Advance(a, s, "U") /\ reply'.res = "ok")
       => /\ status'[a] = C17_Expected[s]
          /\ Len(history') = Len(history) + 1
          /\ history'[Len(history')].application_id = a
          /\ history'[Len(history')].previous_status = status[a]
          /\ history'[Len(history')].new_status = C17_Expected[s]
          /\ history'[Len(history')].changed_by = "U"]_vars

\* an application was advanced from "applied" to the stage "Phone Screen"
C17_Witness ==
  /\ reply.op = "advance" /\ reply.res = "ok"
  /\ \E a \in Applications :
       /\ status[a] = <<"p","h","o","n","e","_","s","c","r","e","e","n">>
       /\ history # <<>>
       /\ history[Len(history)].application_id = a
       /\ history[Len(history)].previous_status = DefaultStatus
       /\ history[Len(history)].new_status = status[a]

\* C18: advance to a stage that does not exist or whose active flag is false
\* fails with StageNotFound (unless the store fails first) and creates no
\* transition; an inactive stage is never the stage of a newly opened transition.
C18_InactiveStage ==
  [][/\ \A a \in Applications, s \in AllStageInputs :
          ( /\ s \notin StageIds \/ ~WorkflowStages[s].is_active
            /\ Advance(a, s, "U")
            /\ reply'.res # "StoreError" )
          => /\ reply'.res = "StageNotFound"
             /\ transitions' = transitions
     /\ \A t \in DOMAIN transitions' \ DOMAIN transitions :
          WorkflowStages[transitions'[t].stage_id].is_active]_vars

\* C19: advance to a stage whose job differs from the application's job fails
\* with StageNotForApplicationJob (unless the store fails first); every
\* transition's stage belongs to the job of the transition's application.
C19_StageOfAnotherJob ==
  [][/\ \A a \in Applications, s \in StageIds :
          ( /\ WorkflowStages[s].job_id # JobOf[a]
            /\ Advance(a, s, "U")
            /\ reply'.res # "StoreError" )
          => /\ reply'.res = "StageNotForApplicationJob"
             /\ transitions' = transitions
     /\ \A t \in DOMAIN transitions' :
          WorkflowStages[transitions'[t].stage_id].job_id
            = JobOf[transitions'[t].application_id]]_vars

\* the number of history entries of application a
HistoryCount(h, a) == Cardinality({k \in DOMAIN h : h[k].application_id = a})

\* this step is a successful operation that changes the stage or the status of
\* application a: an advance to a stage other than its current one, or a
\* status update
StateChangingOperation(a) ==
  \/ \E s \in StageIds :
       s \notin CurrentStages(a) /\ Advance(a, s, "U") /\ reply'.res = "ok"
  \/ update_application_status(a, Screening, "U", <<"manual">>) /\ reply'.res = "ok"

\* C20: every successful operation that changes an application's stage or
\* status appends exactly one history entry for that application, and every
\* history entry corresponds to exactly one such operation.
C20_OneHistoryEntryPerChange ==
  [][\A a \in Applications :
       HistoryCount(history', a) - HistoryCount(history, a)
         = IF StateChangingOperation(a) THEN 1 ELSE 0]_vars

\* C21: an application that has an open transition has a status equal to the
\* canonical name of that transition's stage; status-only updates do not make
\* the two disagree.
C21_StatusMirrorsOpenStage ==
  \A a \in Applications : \A t \in OpenTransitions(transitions, a) :
    status[a] = C17_Expected[transitions[t].stage_id]

----------------------------------------------------------------------------
(* Properties of the SLA check and of the monitor *)

\* the transitions that are open, past their deadline and not escalated
OpenOverdueUnescalated ==
  {t \in DOMAIN transitions :
     /\ transitions[t].exited_at = NULL
     /\ transitions[t].sla_deadline < now
     /\ ~transitions[t].is_escalated}

\* C22: check_sla_violations at time now returns exactly the transitions that
\* are open, have sla_deadline < now and have is_escalated = false, each once.
C22_CheckOverdueExact ==
  LET found == check_sla_violations(transitions, now)
  IN /\ {found[i] : i \in DOMAIN found} = OpenOverdueUnescalated
     /\ Len(found) = Cardinality(OpenOverdueUnescalated)

\* the check returns a transition while it leaves out one that is past its
\* deadline but closed or already escalated
C22_Witness ==
  /\ check_sla_violations(transitions, now) # <<>>
  /\ \E t \in DOMAIN transitions :
       /\ transitions[t].sla_deadline < now
       /\ transitions[t].exited_at # NULL \/ transitions[t].is_escalated
       /\ t \notin OpenOverdueUnescalated

\* hours between the deadline of the escalated transition and the creation of
\* escalation e
OverdueHours(e) ==
  escalations[e].created_at - transitions[escalations[e].stage_transition_id].sla_deadline

\* C23: every escalation the monitor creates is a warning when the transition
\* is less than 24 hours past its deadline at creation, critical from 24 hours
\* to less than 72, and overdue from 72 hours on.
C23_SeverityByOverdueHours ==
  \A e \in DOMAIN escalations :
    escalations[e].by_monitor =>
      /\ OverdueHours(e) < 24 => escalations[e].escalation_type = "warning"
      /\ (24 <= OverdueHours(e) /\ OverdueHours(e) < 72) =>
           escalations[e].escalation_type = "critical"
      /\ OverdueHours(e) >= 72 => escalations[e].escalation_type = "overdue"

\* the monitor has escalated a transition exactly 24 hours past its deadline
\* while another transition is open
C23_Witness ==
  /\ \E e \in DOMAIN escalations :
       /\ escalations[e].by_monitor
       /\ OverdueHours(e) = 24
       /\ escalations[e].escalation_type = "critical"
  /\ Len(transitions) > 1

\* C24: after stop is signalled the monitor writes no escalation except for the
\* item it was processing at that moment: the scan in progress does not go on
\* to its remaining overdue transitions, and the loop exits without sleeping
\* again.
C24_StopEndsScan ==
  [][/\ (~monitor.is_running /\ Len(escalations') > Len(escalations)) =>
          monitor.idx = monitor.stop_idx
     /\ (~monitor.is_running /\ monitor.pc = "scanning") => monitor'.pc # "sleeping"]_vars

\* a turn of the monitor's loop that raised: the pass moved on and wrote no
\* escalation
EscalationFailed ==
  /\ monitor.pc = "scanning"
  /\ monitor'.idx = monitor.idx + 1
  /\ escalations' = escalations

----------------------------------------------------------------------------
(* Properties of the items of a bulk operation and of their notifications *)

\* the task that is inside the try block of an id, and that id
InItem(i) == i \in DOMAIN tasks /\ tasks[i].pc = "running" /\ tasks[i].idx <= Len(tasks[i].ids)

ItemOf(i) == tasks[i].ids[tasks[i].idx]

\* C26: a bulk worker attempts every id of its submission once, in input order:
\* a failure on an item adds one to failed and appends exactly one error record
\* naming that application, and no later item is kept from being attempted and
\* applied, so a worker that has ended has gone through its whole list and no
\* item fails because of an earlier one.
C26_EveryItemAttempted ==
  /\ [](\A i \in DOMAIN tasks :
          /\ tasks[i].pc = "done" => tasks[i].idx > Len(tasks[i].ids)
          /\ tasks[i].rec # NULL =>
               \A k \in DOMAIN records[tasks[i].rec].errors :
                 records[tasks[i].rec].errors[k][2] # "needs rollback")
  /\ [][\A i \in DOMAIN tasks :
          (InItem(i) /\ tasks'[i].pc = "finally"
             /\ records'[tasks[i].rec].failed # records[tasks[i].rec].failed)
          => /\ records'[tasks[i].rec].failed = records[tasks[i].rec].failed + 1
             /\ records'[tasks[i].rec].errors
                  = Append(records[tasks[i].rec].errors,
                           <<ItemOf(i), records'[tasks[i].rec].errors[
                                          Len(records'[tasks[i].rec].errors)][2]>>)]_vars

\* C27: in a bulk set_status operation an item counted as successful has its
\* application's status set to the new status with exactly one history entry
\* added, an item counted as failed leaves its application's status and
\* history unchanged, and the other applications are untouched.
C27_BulkStatusFrame ==
  [][\A i \in DOMAIN tasks :
       (InItem(i) /\ tasks[i].kind = "status" /\ tasks'[i].pc = "finally")
       => LET a == ItemOf(i)
              r == tasks[i].rec
          IN /\ records'[r].successful = records[r].successful + 1
                  => /\ status'[a] = tasks[i].target
                     /\ Len(history') = Len(history) + 1
                     /\ HistoryCount(history', a) = HistoryCount(history, a) + 1
             /\ records'[r].failed = records[r].failed + 1
                  => /\ a \in Applications => status'[a] = status[a]
                     /\ history' = history
             /\ \A b \in Applications \ {a} :
                  /\ status'[b] = status[b]
                  /\ HistoryCount(history', b) = HistoryCount(history, b)]_vars

\* C28: a failure while the notification of a status change is planned or
\* dispatched does not fail the operation that produced the change: the new
\* status and its history entry are committed, and the item of the bulk
\* operation is counted as successful and not as failed.
C28_NotificationFailureIsNotItemFailure ==
  [][\A i \in DOMAIN tasks :
       (InItem(i) /\ Len(tasks'[i].warnings) > Len(tasks[i].warnings))
       => LET a == ItemOf(i)
              r == tasks[i].rec
          IN /\ records'[r].successful = records[r].successful + 1
             /\ records'[r].failed = records[r].failed
             /\ records'[r].errors = records[r].errors
             /\ status'[a] = tasks[i].target
             /\ Len(history') = Len(history) + 1
             /\ history'[Len(history')].application_id = a
             /\ history'[Len(history')].new_status = tasks[i].target
             /\ ~tasks'[i].raised]_vars

\* a bulk operation has completed with both items successful although the
\* notification of one of them failed and the other one was sent
C28_Witness ==
  \E i \in DOMAIN tasks :
    /\ tasks[i].pc = "done"
    /\ Len(tasks[i].warnings) = 1
    /\ Len(tasks[i].sent_notifications) = 1
    /\ records[tasks[i].rec].status = "completed"
    /\ records[tasks[i].rec].successful = 2
    /\ records[tasks[i].rec].failed = 0

\* screening, interview, technical_test, final_interview, offer, hired,
\* rejected and withdrawn
C29_Triggering ==
  {<<"s","c","r","e","e","n","i","n","g">>,
   <<"i","n","t","e","r","v","i","e","w">>,
   <<"t","e","c","h","n","i","c","a","l","_","t","e","s","t">>,
   <<"f","i","n","a","l","_","i","n","t","e","r","v","i","e","w">>,
   <<"o","f","f","e","r">>,
   <<"h","i","r","e","d">>,
   <<"r","e","j","e","c","t","e","d">>,
   <<"w","i","t","h","d","r","a","w","n">>}

C30_ManagerStatuses ==
  {<<"i","n","t","e","r","v","i","e","w">>,
   <<"o","f","f","e","r">>,
   <<"h","i","r","e","d">>,
   <<"r","e","j","e","c","t","e","d">>}

\* the recipients of notification n that have the given type
RecipientsOfType(n, type) == {j \in DOMAIN n.recipients : n.recipients[j].type = type}

\* C30: in every notification the candidate of the application is a recipient
\* exactly once, and there is a hiring_manager recipient, the creator of the
\* job posting, if and only if the new status is one of interview, offer,
\* hired, rejected.
C30_Recipients ==
  \A i \in DOMAIN tasks : \A k \in DOMAIN tasks[i].sent_notifications :
    LET n == tasks[i].sent_notifications[k]
    IN /\ Cardinality(RecipientsOfType(n, "candidate")) = 1
       /\ \A j \in RecipientsOfType(n, "candidate") : n.recipients[j].of = n.application_id
       /\ (RecipientsOfType(n, "hiring_manager") # {}) <=> (n.new_status \in C30_ManagerStatuses)
       /\ Cardinality(RecipientsOfType(n, "hiring_manager")) <= 1
       /\ \A j \in RecipientsOfType(n, "hiring_manager") : n.recipients[j].of = "M"
       /\ Len(n.recipients) = Cardinality(RecipientsOfType(n, "candidate"))
                              + Cardinality(RecipientsOfType(n, "hiring_manager"))

\* a notification of a change to offer went to the candidate and to the hiring
\* manager
C30_Witness ==
  \E i \in DOMAIN tasks : \E k \in DOMAIN tasks[i].sent_notifications :
    /\ tasks[i].sent_notifications[k].new_status = <<"o","f","f","e","r">>
    /\ Len(tasks[i].sent_notifications[k].recipients) = 2

\* C31: the notification_id is the same whenever a notification is made for
\* the same application and history entry, whatever the time of the call, and
\* the notifications of different history entries of an application have
\* different notification_ids.
C31_NotificationIdDeterministic ==
  \A j, k \in DOMAIN notification_service :
    LET m == notification_service[j]
        n == notification_service[k]
    IN m.application_id = n.application_id =>
         ((m.status_change = n.status_change) <=> (m.notification_id = n.notification_id))

\* the notification of one history entry was sent at two different times
C31_Witness ==
  \E j, k \in DOMAIN notification_service :
    /\ notification_service[j].application_id = notification_service[k].application_id
    /\ notification_service[j].status_change = notification_service[k].status_change
    /\ notification_service[j].sent_at # notification_service[k].sent_at

\* every notification any NotificationService has recorded
AllNotifications ==
  {notification_service[k] : k \in DOMAIN notification_service}
  \cup UNION {{tasks[i].sent_notifications[k] : k \in DOMAIN tasks[i].sent_notifications} :
                i \in DOMAIN tasks}

\* the applications on which a notification failed and was logged
AllWarnings ==
  UNION {{tasks[i].warnings[k] : k \in DOMAIN tasks[i].warnings} : i \in DOMAIN tasks}

\* C32: every successful advance, single or as an item of a bulk move, is passed
\* on for notification: when the status it sets is a triggering status (a stage
\* named Interview gives interview), a notification of the new history entry
\* to the candidate and to the hiring manager is made or is logged as failed.
C32_AdvanceIsNotified ==
  [][(/\ Len(transitions') > Len(transitions)
      /\ Len(history') > Len(history)
      /\ history'[Len(history')].new_status \in C29_Triggering)
     => \/ \E n \in AllNotifications' :
             /\ n.application_id = history'[Len(history')].application_id
             /\ n.status_change = Len(history')
             /\ RecipientsOfType(n, "candidate") # {}
             /\ RecipientsOfType(n, "hiring_manager") # {}
        \/ AllWarnings' # AllWarnings]_vars

----------------------------------------------------------------------------
(* Properties of stage rows, of the timeline and of stored rows *)

\* the stage rows of a job
StagesOf(job) == {k \in DOMAIN created_stages : created_stages[k].job_id = job}

\* C33: after any sequence of create_default_stages calls and stage creations
\* the order_index values of the stages of each job have no duplicates and are
\* 1..n, and create_default_stages adds six stages with order_index 1 to 6.
C33_OrderIndexPrefix ==
  /\ [](\A job \in Jobs :
          /\ \A j, k \in StagesOf(job) :
               created_stages[j].order_index = created_stages[k].order_index => j = k
          /\ {created_stages[k].order_index : k \in StagesOf(job)}
               = 1..Cardinality(StagesOf(job)))
  /\ [][\A job \in Jobs :
          create_default_workflow_stages(job)
          => /\ Len(created_stages') = Len(created_stages) + 6
             /\ \A n \in 1..6 :
                  /\ created_stages'[Len(created_stages) + n].order_index = n
                  /\ created_stages'[Len(created_stages) + n].job_id = job]_vars

\* the stages of the transitions ids, each different from the one before it
SuccessivelyDifferent(ids) ==
  \A k \in 1..(Len(ids) - 1) :
    transitions[ids[k]].stage_id # transitions[ids[k + 1]].stage_id

\* C34: after n >= 1 successful advances of an application to successively
\* different stages the timeline has n entries in the order of the advances,
\* with non-decreasing entered_at; every entry but the last has exited_at and
\* duration_hours set, the last has neither, and the current transition is
\* the transition of the last entry
C34_Timeline ==
  \A a \in Applications :
    LET ids == TransitionsOf(transitions, a)
        n == Len(ids)
        timeline == get_application_timeline(transitions, a)
    IN (n >= 1 /\ SuccessivelyDifferent(ids)) =>
         /\ Len(timeline) = n
         /\ \A k \in 1..n : timeline[k] = TimelineEntry(transitions[ids[k]])
         /\ \A k \in 1..(n - 1) :
              /\ timeline[k].entered_at <= timeline[k + 1].entered_at
              /\ timeline[k].exited_at # NULL
              /\ timeline[k].duration_hours # NULL
         /\ timeline[n].exited_at = NULL
         /\ timeline[n].duration_hours = NULL
         /\ CurrentTransitionChoices(transitions, a) = {ids[n]}

\* three advances of one application to successively different stages, the
\* later ones with the earlier deadline and at a later hour
C34_Witness ==
  \E a \in Applications :
    LET ids == TransitionsOf(transitions, a)
    IN /\ Len(ids) = 3
       /\ SuccessivelyDifferent(ids)
       /\ transitions[ids[1]].sla_deadline > transitions[ids[2]].sla_deadline
       /\ transitions[ids[2]].entered_at < transitions[ids[3]].entered_at

\* C35: a closed transition has entered_at <= exited_at, and an exited_at that
\* is set is never changed or reset by a later operation
C35_ExitedAtKept ==
  /\ [](\A t \in DOMAIN transitions :
          transitions[t].exited_at # NULL =>
            transitions[t].entered_at <= transitions[t].exited_at)
  /\ [][\A t \in DOMAIN transitions :
          transitions[t].exited_at # NULL =>
            /\ t \in DOMAIN transitions'
            /\ transitions'[t].exited_at = transitions[t].exited_at]_vars

\* C36: resolving an escalation changes nothing of it but is_resolved,
\* resolved_at and resolved_by, and no operation changes the severity, the
\* assignee, the reason or the transition of an escalation after its creation
C36_ResolveChangesThree ==
  [][\A e \in DOMAIN escalations :
       /\ e \in DOMAIN escalations'
       /\ escalations[e] = [escalations'[e] EXCEPT
                              !.is_resolved = escalations[e].is_resolved,
                              !.resolved_at = escalations[e].resolved_at,
                              !.resolved_by = escalations[e].resolved_by]]_vars

\* an escalation of severity overdue, made by a request, has been resolved
C36_Witness ==
  \E e \in DOMAIN escalations :
    /\ escalations[e].is_resolved
    /\ escalations[e].resolved_by = "U"
    /\ escalations[e].escalation_type = "overdue"
    /\ ~escalations[e].by_monitor

\* the loops of start_monitoring that have not returned
LiveLoops ==
  (IF monitor.pc # "stopped" THEN 1 ELSE 0)
    + Cardinality({k \in DOMAIN loops : loops[k].pc # "stopped"})

\* C37: whatever the sequence of start and stop calls, at most one monitor
\* loop is scanning and writing escalations
C37_OneLoop == monitor.is_running => LiveLoops <= 1

----------------------------------------------------------------------------
(* Properties of the progress of a bulk operation *)

\* the ids of task t whose try block has been left
Attempted(t) ==
  IF t.pc \in {"scheduled", "crashed"} THEN 0
  ELSE IF t.pc \in {"finally", "except"} THEN t.idx
  ELSE IF t.pc = "done" /\ t.raised THEN t.idx
  ELSE t.idx - 1

\* C38: within one bulk operation the action of an item is applied before
\* processed is incremented for it, and status = completed is written after
\* the increment for the last item: processed never exceeds the items
\* attempted, and completed is never seen with processed < total
C38_ProcessedFollowsItems ==
  /\ [](\A i \in DOMAIN tasks :
          tasks[i].rec # NULL =>
            LET t == tasks[i]
                p == records[t.rec]
            IN /\ p.successful + p.failed = Attempted(t)
               /\ p.processed <= Attempted(t)
               /\ p.processed = IF t.pc = "finally" THEN Attempted(t) - 1 ELSE Attempted(t)
               /\ p.status = "completed" => p.processed = p.total)
  /\ [][\A r \in DOMAIN records :
          (records[r].status # "completed" /\ records'[r].status = "completed") =>
            /\ records[r].processed = records[r].total
            /\ records'[r].processed = records[r].processed]_vars

\* an operation of two ids has completed, one item applied and one failed
C38_Witness ==
  \E r \in DOMAIN records :
    /\ records[r].status = "completed"
    /\ records[r].total = 2
    /\ records[r].processed = 2
    /\ records[r].successful = 1
    /\ records[r].failed = 1

\* C39: every accepted bulk submission has a progress record of its own: a
\* submission never replaces or resets the record of an operation that is
\* not cleaned up, and no two workers update the same record
C39_OwnRecord ==
  /\ [](\A i, j \in DOMAIN tasks :
          (i # j /\ tasks[i].rec # NULL /\ tasks[j].rec # NULL)
            => tasks[i].rec # tasks[j].rec)
  /\ [][Len(tasks') > Len(tasks) =>
          \A op \in DOMAIN bulk_operation_progress :
            /\ op \in DOMAIN bulk_operation_progress'
            /\ bulk_operation_progress'[op] = bulk_operation_progress[op]
            /\ records'[bulk_operation_progress[op]] = records[bulk_operation_progress[op]]]_vars

\* the record has a terminal status
Terminal(rec) == rec.status \in {"completed", "failed"}

\* C40: with its worker scheduled fairly, every accepted bulk submission
\* reaches a terminal status with completed_at set, whatever its items do, and
\* the status and the counters of a terminal record never change. The i-th
\* accepted submission is the one that made the i-th record
C40_ReachesTerminal ==
  /\ \A i \in 1..MaxOps :
       (i \in DOMAIN tasks) ~>
         (i \in DOMAIN records /\ Terminal(records[i]) /\ records[i].completed_at # NULL)
  /\ [][\A r \in DOMAIN records :
          Terminal(records[r]) =>
            /\ records'[r].status = records[r].status
            /\ records'[r].processed = records[r].processed
            /\ records'[r].successful = records[r].successful
            /\ records'[r].failed = records[r].failed]_vars

============================================================================
